---- MODULE Spec2Model ----
(***************************************************************************)
(* A model of the BERT codec of bertjs (src/src/bert.js): Bert.encode and  *)
(* Bert.decode over JavaScript values, with the arithmetic of the          *)
(* JavaScript operators the code uses (32-bit shifts, ToNumber of a        *)
(* character, Array.prototype.slice, String.prototype.substring).          *)
(***************************************************************************)
EXTENDS Integers, Sequences, FiniteSets, TLC

(***************************************************************************)
(* JavaScript values.  A value is a record tagged by k:                    *)
(*   undefined, null, NaN, number (an integer n), float (a non-integral    *)
(*   double given by the 8 bytes ifa of its little-endian layout),         *)
(*   string, array (a sequence a of values), object (its own properties m  *)
(*   as <<key, value>> pairs in property order) and BertObj (type, value). *)
(* A string is the code units s followed by NUL (U+0000) code units up to  *)
(* length len; s never ends with a NUL, so equal strings are equal records.*)
(***************************************************************************)
Undefined == [k |-> "undefined"]
Null == [k |-> "null"]
NaN == [k |-> "NaN"]
Num(n) == [k |-> "number", n |-> n]
Float64(ifa) == [k |-> "float", ifa |-> ifa]
Arr(a) == [k |-> "array", a |-> a]
Obj(m) == [k |-> "object", m |-> m]

\* The outcome of a call that throws.
Throw == [k |-> "throw"]

RECURSIVE StripNul(_)
StripNul(s) ==
  IF s = <<>> \/ s[Len(s)] # 0 THEN s ELSE StripNul(SubSeq(s, 1, Len(s) - 1))

MkStr(s, len) == [k |-> "string", s |-> StripNul(s), len |-> len]
Str(s) == MkStr(s, Len(s))

\* charCodeAt(i) and length of a string value (i counts from 0)
CharCodeAt(str, i) == IF i < Len(str.s) THEN str.s[i + 1] ELSE 0
StrLength(str) == str.len

Min(a, b) == IF a < b THEN a ELSE b
Max(a, b) == IF a > b THEN a ELSE b

\* "ok", "error", "NaN", "[object Object]", ... as code units
ObjectObjectText == <<91, 111, 98, 106, 101, 99, 116, 32, 79, 98, 106, 101, 99, 116, 93>>
NaNText == <<78, 97, 78>>
UndefinedText == <<117, 110, 100, 101, 102, 105, 110, 101, 100>>
NullText == <<110, 117, 108, 108>>

(***************************************************************************)
(* The tag table.                                                          *)
(***************************************************************************)
BERT_TOKENS ==
  131 :> "start" @@ 70 :> "NewFloat" @@ 77 :> "BitString" @@ 97 :> "SmallInt" @@
  98 :> "Int" @@ 99 :> "Float" @@ 100 :> "Atom" @@ 102 :> "Port" @@ 103 :> "Pid" @@
  104 :> "SmallTuple" @@ 105 :> "Tuple" @@ 106 :> "Nil" @@ 107 :> "String" @@
  108 :> "List" @@ 109 :> "Binary" @@ 110 :> "SmallBig" @@ 111 :> "Big" @@
  115 :> "SmallAtom" @@ 116 :> "Map" @@ 118 :> "AtomUtf8" @@ 119 :> "SmallAtomUtf8"

\* an unknown token decoded as if it were Nil
TokenType_UnknownIsNil(token) ==
  IF token.k = "number" /\ token.n \in DOMAIN BERT_TOKENS
    THEN BERT_TOKENS[token.n]
    ELSE "Nil"

\* BERT_TOKENS[token] for a token that is a number, NaN or undefined
TokenType(token) ==
  IF token.k = "number" /\ token.n \in DOMAIN BERT_TOKENS
    THEN BERT_TOKENS[token.n]
    ELSE "undefined"

BertObj(type, value) == [k |-> "BertObj", type |-> type, value |-> value]

(***************************************************************************)
(* Constructors.                                                           *)
(***************************************************************************)
Nil == BertObj("Nil", Arr(<<>>))
\* Bert.Int (Int is the set of integers in TLA+)
BertInt(value) == BertObj("Int", value)
Float(value) == BertObj("NewFloat", value)
Atom(value) == BertObj("Atom", value)
String(value) == BertObj("String", value)
Binary(value) == BertObj("Binary", value)
Tuple(value) == IF value.k # "array" THEN Throw ELSE BertObj("Tuple", value)
Map(value) ==
  IF value.k \notin {"object", "array", "BertObj"} THEN Throw ELSE BertObj("Map", value)
List(value) == IF value.k # "array" THEN Throw ELSE BertObj("List", value)
IntList(value) == IF value.k # "array" THEN Throw ELSE BertObj("String", value)

fourByteMaxNumber == 134217727

(***************************************************************************)
(* The data given to decode: a string with one character per byte or an    *)
(* array with one element per byte; b holds the code units or the elements.*)
(***************************************************************************)
StringData(b) == [form |-> "string", b |-> b]
ArrayData(b) == [form |-> "array", b |-> b]

\* Array.prototype.slice(start, end) and slice(start): a negative index
\* counts from the end
SliceIndex(i, len) == IF i < 0 THEN Max(len + i, 0) ELSE Min(i, len)
SliceRange(b, rs, re) == IF rs >= re THEN <<>> ELSE SubSeq(b, rs + 1, re)
Slice(b, start, end) == SliceRange(b, SliceIndex(start, Len(b)), SliceIndex(end, Len(b)))
SliceFrom(b, start) == SliceRange(b, SliceIndex(start, Len(b)), Len(b))

\* String.prototype.substring(start, end) and substring(start): an index is
\* clamped to 0 .. length and the smaller one is the start
SubstringIndex(i, len) == Min(Max(i, 0), len)
SubstringRange(b, cs, ce) == SubSeq(b, Min(cs, ce) + 1, Max(cs, ce))
Substring(b, start, end) ==
  SubstringRange(b, SubstringIndex(start, Len(b)), SubstringIndex(end, Len(b)))
SubstringFrom(b, start) == SubSeq(b, SubstringIndex(start, Len(b)) + 1, Len(b))

\* ToNumber of a one-character string: a digit is its value, white space is
\* 0 (the string is empty once trimmed), anything else is NaN.
WhiteSpace ==
  {9, 10, 11, 12, 13, 32, 160, 5760, 8232, 8233, 8239, 8287, 12288, 65279}
    \cup (8192 .. 8202)

CharToNumber(c) ==
  IF c \in 48 .. 57 THEN Num(c - 48)
  ELSE IF c \in WhiteSpace THEN Num(0)
  ELSE NaN

\* data[i] converted by ToNumber (i counts from 0): undefined past the end
ElemNum(data, i) ==
  IF i < 0 \/ i >= Len(data.b) THEN NaN
  ELSE IF data.form = "string" THEN CharToNumber(data.b[i + 1])
  ELSE Num(data.b[i + 1])

ToInt32(v) == IF v.k = "number" THEN v.n ELSE 0
ToUint8(v) == IF v.k = "number" THEN v.n % 256 ELSE 0
ToUint16(v) == IF v.k = "number" THEN v.n % 65536 ELSE 0

Pow2(e) ==
  CASE e = 0 -> 1 [] e = 8 -> 256 [] e = 16 -> 65536 [] e = 24 -> 16777216

\* x << s on 32-bit integers for s = 8, 16, 24: the low 32 - s bits of x,
\* the highest of them being the sign
ShlBits(low, half, s) == IF low >= half THEN (low - 2 * half) * Pow2(s) ELSE low * Pow2(s)

\* x << offset; the shift count is taken modulo 32
Shl(x, offset) ==
  IF offset % 32 = 0 THEN x
  ELSE ShlBits(x % Pow2(32 - (offset % 32)), Pow2(32 - (offset % 32)) \div 2, offset % 32)

\* x >> offset on 32-bit integers
Shr(x, offset) == x \div Pow2(offset % 32)

nextToken(data) ==
  IF data.form = "string"
    THEN << IF Len(data.b) = 0 THEN NaN ELSE Num(data.b[1]),
            StringData(SubstringFrom(data.b, 1)) >>
    ELSE << IF Len(data.b) = 0 THEN Undefined ELSE Num(data.b[1]),
            ArrayData(SliceFrom(data.b, 1)) >>

split(data, length) ==
  IF data.form = "string"
    THEN << StringData(Substring(data.b, 0, length)),
            StringData(SubstringFrom(data.b, length)) >>
    ELSE << ArrayData(Slice(data.b, 0, length)),
            ArrayData(SliceFrom(data.b, length)) >>

(***************************************************************************)
(* The decoder.  A decode routine yields <<value, rest>> or Throw.  A      *)
(* routine of the source is written as a chain of operators, one per step, *)
(* each taking the values of the steps before it as its arguments.         *)
(***************************************************************************)
\* decodeIntLoop reading the bytes least significant first
RECURSIVE decodeIntLoop_LittleEndian(_, _, _)
decodeIntLoop_LittleEndian(data, byteLength, i) ==
  IF i >= byteLength THEN 0
  ELSE Shl(ToInt32(ElemNum(data, i)), i * 8)
         + decodeIntLoop_LittleEndian(data, byteLength, i + 1)

RECURSIVE decodeIntLoop(_, _, _)
decodeIntLoop(data, byteLength, i) ==
  IF i >= byteLength THEN 0
  ELSE Shl(ToInt32(ElemNum(data, i)), (byteLength - i - 1) * 8)
         + decodeIntLoop(data, byteLength, i + 1)

decodeInt(data, byteLength) ==
  << Num(decodeIntLoop(data, byteLength, 0)), split(data, byteLength)[2] >>

decodeSmallInt(data) == decodeInt(data, 1)

\* ifa[7 - i] = float[i] for i = 0..7, stored into a Uint8Array
decodeNewFloatLoop(parts) ==
  << Float64([j \in 1 .. 8 |-> ToUint8(ElemNum(parts[1], 8 - j))]), parts[2] >>

decodeNewFloat(data) == decodeNewFloatLoop(split(data, 8))

\* String.fromCharCode(parts[0][i]) for i < length: the code units present,
\* then NUL for every index past the end of parts[0]
decodeStringLoop(length, parts) ==
  << MkStr([i \in 1 .. Min(Max(length, 0), Len(parts[1].b)) |->
              ToUint16(ElemNum(parts[1], i - 1))],
           Max(length, 0)),
     parts[2] >>

decodeStringSplit(parts) == decodeStringLoop(parts[1].n, split(parts[2], parts[1].n))

decodeString(data, byteLength) == decodeStringSplit(decodeInt(data, byteLength))

\* parseFloat is left uninterpreted
decodeFloatParse(float) == << [k |-> "parseFloat", arg |-> float[1]], float[2] >>

decodeFloat(data) == decodeFloatParse(decodeString(data, 31))

decodeAtom(data) == decodeString(data, 2)
decodeBinary(data) == decodeString(data, 4)
decodeSmallAtom(data) == decodeString(data, 1)
decodeAtomUtf8(data) == decodeAtom(data)
decodeSmallAtomUtf8(data) == decodeSmallAtom(data)
decodeNil(data) == << Arr(<<>>), data >>

\* elements[i] * Math.pow(256, i) summed for i < length
RECURSIVE decodeBigLoop(_, _, _)
decodeBigLoop(elements, length, i) ==
  IF i >= length THEN 0
  ELSE (IF ElemNum(elements, i).n = 0 THEN 0
        ELSE ElemNum(elements, i).n * Pow2(8 * i))
         + decodeBigLoop(elements, length, i + 1)

\* the sum is NaN as soon as an element is undefined or a character that is
\* not a number
decodeBigNum(length, sign, elements) ==
  IF length <= 0 THEN Num(0)
  ELSE IF length > Len(elements.b)
            \/ \E i \in 0 .. Len(elements.b) - 1 : ElemNum(elements, i) = NaN
    THEN NaN
  ELSE IF sign # 0 THEN Num(0 - decodeBigLoop(elements, length, 0))
  ELSE Num(decodeBigLoop(elements, length, 0))

decodeBigSplit(length, sign, parts) == << decodeBigNum(length, sign, parts[1]), parts[2] >>

decodeBigSign(length, sign) == decodeBigSplit(length, sign[1].n, split(sign[2], length))

decodeBigArity(arity) == decodeBigSign(arity[1].n, decodeInt(arity[2], 1))

decodeBig(data, byteLength) == decodeBigArity(decodeInt(data, byteLength))

decodeSmallBig(data) == decodeBig(data, 1)

(***************************************************************************)
(* ToString and property assignment, as "+" on strings and map[key] = value*)
(* apply them.  The decimal rendering of a double is left uninterpreted.   *)
(***************************************************************************)
RECURSIVE NatDigits(_)
NatDigits(n) == IF n < 10 THEN <<48 + n>> ELSE NatDigits(n \div 10) \o <<48 + (n % 10)>>

NumberToString(n) == IF n < 0 THEN <<45>> \o NatDigits(0 - n) ELSE NatDigits(n)

\* the code units of a string value, NUL padding included
Units(str) == str.s \o [i \in 1 .. (str.len - Len(str.s)) |-> 0]

Concat(a, b) == Str(Units(a) \o Units(b))

RECURSIVE JSToString(_), Join(_, _)
JSToString(v) ==
  CASE v.k = "string" -> v
    [] v.k = "number" -> Str(NumberToString(v.n))
    [] v.k = "NaN" -> Str(NaNText)
    [] v.k = "undefined" -> Str(UndefinedText)
    [] v.k = "null" -> Str(NullText)
    [] v.k = "array" -> Join(v.a, 1)
    [] v.k = "float" -> Str(<<-1>> \o v.ifa)
    [] v.k = "parseFloat" -> Str(<<-2>> \o Units(v.arg))
    [] OTHER -> Str(ObjectObjectText)

\* Array.prototype.join(",") of the elements from index i on; null and
\* undefined are rendered as the empty string
Join(a, i) ==
  IF i > Len(a) THEN Str(<<>>)
  ELSE IF i = Len(a)
    THEN (IF a[i].k \in {"undefined", "null"} THEN Str(<<>>) ELSE JSToString(a[i]))
  ELSE Concat(IF a[i].k \in {"undefined", "null"} THEN Str(<<44>>)
              ELSE Concat(JSToString(a[i]), Str(<<44>>)),
              Join(a, i + 1))

\* a canonical array index ("0", "42", ... below 2^32 - 1): such keys are
\* enumerated first, in ascending order, by Object.keys
LexLess(a, b) ==
  \E i \in 1 .. Len(a) : a[i] < b[i] /\ \A j \in 1 .. (i - 1) : a[j] = b[j]

IsArrayIndex(key) ==
  /\ key.len = Len(key.s)
  /\ key.len \in 1 .. 10
  /\ \A i \in 1 .. Len(key.s) : key.s[i] \in 48 .. 57
  /\ (key.s[1] # 48 \/ key.len = 1)
  /\ (key.len = 10 => LexLess(key.s, <<52, 50, 57, 52, 57, 54, 55, 50, 57, 53>>))

IndexLess(a, b) == a.len < b.len \/ (a.len = b.len /\ LexLess(a.s, b.s))

\* m with <<key, value>> inserted after its first n properties
ObjInsert(m, n, key, value) ==
  SubSeq(m, 1, n) \o << <<key, value>> >> \o SubSeq(m, n + 1, Len(m))

\* m after map[key] = value
ObjSet(m, key, value) ==
  IF \E i \in 1 .. Len(m) : m[i][1] = key
    THEN [i \in 1 .. Len(m) |-> IF m[i][1] = key THEN <<key, value>> ELSE m[i]]
  ELSE IF IsArrayIndex(key)
    THEN ObjInsert(m,
           Cardinality({i \in 1 .. Len(m) :
                          IsArrayIndex(m[i][1]) /\ IndexLess(m[i][1], key)}),
           key, value)
  ELSE Append(m, <<key, value>>)

\* data[key] of an object, undefined when absent
ObjGet(m, key) ==
  IF \E i \in 1 .. Len(m) : m[i][1] = key
    THEN (CHOOSE p \in {m[i] : i \in 1 .. Len(m)} : p[1] = key)[2]
    ELSE Undefined

\* an exception thrown by the decode routine propagates
handleResult(type, result) ==
  IF result = Throw THEN Throw ELSE << BertObj(type, result[1]), result[2] >>

RECURSIVE decodeData(_), decodeTupleLoop(_, _, _), decodeListLoop(_, _, _),
          decodeMapLoop(_, _, _)

\* tuple.push(parts[0].value); elements = parts[1]; and the iterations left
decodeTuplePush(parts, n, tuple) ==
  IF parts = Throw THEN Throw
  ELSE decodeTupleLoop(parts[2], n - 1, Append(tuple, parts[1].value))

\* the loop of decodeTuple with n iterations left
decodeTupleLoop(elements, n, tuple) ==
  IF n <= 0 THEN << Arr(tuple), elements >>
  ELSE decodeTuplePush(decodeData(elements), n, tuple)

decodeTupleArity(parts) == decodeTupleLoop(parts[2], parts[1].n, <<>>)

decodeTuple(data, byteLength) == decodeTupleArity(decodeInt(data, byteLength))

decodeSmallTuple(data) == decodeTuple(data, 1)

\* arr.push(parts[0].value); elements = parts[1]; and the iterations left
decodeListPush(parts, n, arr) ==
  IF parts = Throw THEN Throw
  ELSE decodeListLoop(parts[2], n - 1, Append(arr, parts[1].value))

\* the loop of decodeList with n iterations left
decodeListLoop(elements, n, arr) ==
  IF n <= 0 THEN << Arr(arr), elements >>
  ELSE decodeListPush(decodeData(elements), n, arr)

\* decodeList accepting whatever term follows the elements
decodeListNil_AnyTerm(arr, removenil) ==
  IF removenil = Throw THEN Throw ELSE << arr, removenil[2] >>

\* the term after the elements must be of type Nil
decodeListNil(arr, removenil) ==
  IF removenil = Throw THEN Throw
  ELSE IF removenil[1].type # "Nil" THEN Throw
  ELSE << arr, removenil[2] >>

decodeListEnd(loop) ==
  IF loop = Throw THEN Throw ELSE decodeListNil(loop[1], decodeData(loop[2]))

decodeListLength(parts) == decodeListEnd(decodeListLoop(parts[2], parts[1].n, <<>>))

decodeList(data) == decodeListLength(decodeInt(data, 4))

\* map[key] = value; pairs = result[1]; and the iterations left
decodeMapValue(key, result, n, map) ==
  IF result = Throw THEN Throw
  ELSE decodeMapLoop(result[2], n - 1, ObjSet(map, JSToString(key), result[1].value))

decodeMapKey(result, n, map) ==
  IF result = Throw THEN Throw
  ELSE decodeMapValue(result[1].value, decodeData(result[2]), n, map)

\* the loop of decodeMap with n iterations left
decodeMapLoop(pairs, n, map) ==
  IF n <= 0 THEN << Obj(map), pairs >>
  ELSE decodeMapKey(decodeData(pairs), n, map)

decodeMapArity(parts) == decodeMapLoop(parts[2], parts[1].n, <<>>)

decodeMap(data) == decodeMapArity(decodeInt(data, 4))

\* atom[0] + "<" + id[0] + ">": atom[0] is the BertObj, which "+" renders as
\* "[object Object]"
decodePortString(atom, id, creation) ==
  << Concat(Concat(JSToString(atom), Str(<<60>>)), Concat(JSToString(id), Str(<<62>>))),
     creation[2] >>

decodePortId(atom, id) == decodePortString(atom, id[1], decodeInt(id[2], 1))

decodePortAtom(atom) ==
  IF atom = Throw THEN Throw ELSE decodePortId(atom[1], decodeInt(atom[2], 4))

decodePort(data) == decodePortAtom(decodeData(data))

decodePidSerial(atom, id, serial) == decodePortString(atom, id, decodeInt(serial[2], 1))

decodePidId(atom, id) == decodePidSerial(atom, id[1], decodeInt(id[2], 4))

decodePidAtom(atom) ==
  IF atom = Throw THEN Throw ELSE decodePidId(atom[1], decodeInt(atom[2], 4))

decodePid(data) == decodePidAtom(decodeData(data))

\* this["decode" + type](data): a TypeError when Bert has no such method
decodeType(type, data) ==
  CASE type = "NewFloat" -> decodeNewFloat(data)
    [] type = "SmallInt" -> decodeSmallInt(data)
    [] type = "Int" -> decodeInt(data, 4)
    [] type = "Float" -> decodeFloat(data)
    [] type = "Atom" -> decodeAtom(data)
    [] type = "Port" -> decodePort(data)
    [] type = "Pid" -> decodePid(data)
    [] type = "SmallTuple" -> decodeSmallTuple(data)
    [] type = "Tuple" -> decodeTuple(data, 4)
    [] type = "Nil" -> decodeNil(data)
    [] type = "String" -> decodeString(data, 2)
    [] type = "List" -> decodeList(data)
    [] type = "Binary" -> decodeBinary(data)
    [] type = "SmallBig" -> decodeSmallBig(data)
    [] type = "Big" -> decodeBig(data, 4)
    [] type = "SmallAtom" -> decodeSmallAtom(data)
    [] type = "Map" -> decodeMap(data)
    [] type = "AtomUtf8" -> decodeAtomUtf8(data)
    [] type = "SmallAtomUtf8" -> decodeSmallAtomUtf8(data)
    [] OTHER -> Throw

decodeToken(type, data) == handleResult(type, decodeType(type, data))

decodeParts(parts) == decodeToken(TokenType(parts[1]), parts[2])

decodeData(data) == decodeParts(nextToken(data))

decodeResult(result) == IF result = Throw THEN Throw ELSE result[1].value

\* decode without the check of the start token
decodeStart_NoCheck(parts) == decodeResult(decodeData(parts[2]))

decodeStart(parts) ==
  IF TokenType(parts[1]) # "start" THEN Throw ELSE decodeResult(decodeData(parts[2]))

decode(data) == decodeStart(nextToken(data))

(***************************************************************************)
(* The encoder.  An encode routine yields the buffer, a sequence of the    *)
(* numbers pushed so far, or Throw.                                        *)
(***************************************************************************)
\* v.length and v[i] (i counts from 0) for a string or an array
Length(v) == IF v.k = "string" THEN StrLength(v) ELSE Len(v.a)

Index(v, i) ==
  CASE v.k = "string" -> IF i < StrLength(v) THEN Str(<<CharCodeAt(v, i)>>) ELSE Undefined
    [] v.k = "array" -> IF i < Len(v.a) THEN v.a[i + 1] ELSE Undefined
    [] v.k = "object" -> ObjGet(v.m, Str(NumberToString(i)))
    [] OTHER -> Undefined

\* typeof never yields 'array': an array is an 'object' and becomes a Map
smartCast(obj) ==
  IF obj.k \in {"null", "undefined"} THEN Nil
  ELSE IF obj.k = "number" THEN BertInt(obj)
  ELSE IF obj.k \in {"float", "NaN"} THEN Float(obj)
  ELSE IF obj.k = "string" THEN Binary(obj)
  ELSE IF obj.k \in {"array", "object"} THEN Map(obj)
  ELSE Throw

\* the bytes of new Float64Array([num]), least significant first
Float64Bytes(num) ==
  CASE num.k = "float" -> num.ifa
    [] num.k = "NaN" -> <<0, 0, 0, 0, 0, 0, 248, 127>>
    [] num.k = "number" /\ num.n = 0 -> <<0, 0, 0, 0, 0, 0, 0, 0>>

encodeNewFloatLoop(ifa, buffer) == buffer \o <<70>> \o [i \in 1 .. 8 |-> ifa[9 - i]]

encodeNewFloat(num, buffer) == encodeNewFloatLoop(Float64Bytes(num), buffer)

RECURSIVE encodeNumLoop(_, _, _)

\* buffer.push(value); num = num - (value << offset)
encodeNumPush(num, offset, value, buffer) ==
  encodeNumLoop(num - Shl(value, offset), offset - 8, Append(buffer, value))

\* the loop of encodeNum from a given offset on
encodeNumLoop(num, offset, buffer) ==
  IF offset < 0 THEN buffer ELSE encodeNumPush(num, offset, Shr(num, offset), buffer)

encodeNum(num, byteLength, buffer) == encodeNumLoop(num, (byteLength - 1) * 8, buffer)

maxNumberError == Throw

RECURSIVE encodeInt(_, _)

\* encodeSmallInt with the boundary one too high
encodeSmallInt_Above256(data, buffer) ==
  IF data.n > 256 THEN encodeInt(data, buffer)
  ELSE encodeNum(data.n, 1, Append(buffer, 97))

encodeSmallInt(data, buffer) ==
  IF data.n > 255 THEN encodeInt(data, buffer)
  ELSE encodeNum(data.n, 1, Append(buffer, 97))

encodeInt(data, buffer) ==
  IF data.n > fourByteMaxNumber THEN maxNumberError
  ELSE IF data.n < 256 THEN encodeSmallInt(data, buffer)
  ELSE encodeNum(data.n, 4, Append(buffer, 98))

encodeNil(data, buffer) == Append(buffer, 106)

\* str.charCodeAt(i) pushed for i < str.length; an array has no charCodeAt
encodeStringToBuffer(str, buffer) ==
  IF Length(str) <= 0 THEN buffer
  ELSE IF str.k # "string" THEN Throw
  ELSE buffer \o Units(str)

encodeAtom(data, buffer) ==
  IF Length(data) >= 256 THEN Throw
  ELSE encodeStringToBuffer(data, buffer \o <<100, 0, Length(data)>>)

encodeBinary(data, buffer) ==
  IF Length(data) > fourByteMaxNumber THEN maxNumberError
  ELSE encodeStringToBuffer(data, encodeNum(Length(data), 4, Append(buffer, 109)))

RECURSIVE encodeData(_, _), encodeListLoop(_, _, _), encodeTupleLoop(_, _, _),
          encodeMapFromArrayLoop(_, _, _), encodeMapFromObjectLoop(_, _, _)

\* the pushes of one half of the loop followed by those of the other; an
\* exception in either ends the loop
encodeListNext(first, second) ==
  IF first = Throw \/ second = Throw THEN Throw ELSE first \o second

\* what the iterations lo <= i < hi of the loop of encodeList push: every
\* encode routine only pushes onto buffer, so the pushes of this.encodeData(
\* data[i], buffer) are those made onto an empty buffer, and the range is
\* halved to keep the evaluation shallow for a long list
encodeListLoop(data, lo, hi) ==
  IF hi <= lo THEN <<>>
  ELSE IF hi = lo + 1 THEN encodeData(Index(data, lo), <<>>)
  ELSE encodeListNext(encodeListLoop(data, lo, (lo + hi) \div 2),
                      encodeListLoop(data, (lo + hi) \div 2, hi))

\* the pushes of the loop onto the buffer holding the tag and the length
encodeListElements(buffer, pushes) ==
  IF pushes = Throw THEN Throw ELSE buffer \o pushes

encodeListNil(buffer) == IF buffer = Throw THEN Throw ELSE encodeNil(Nil, buffer)

encodeList(data, buffer) ==
  IF Length(data) > fourByteMaxNumber THEN maxNumberError
  ELSE encodeListNil(encodeListElements(encodeNum(Length(data), 4, Append(buffer, 108)),
                                        encodeListLoop(data, 0, Length(data))))

encodeString(data, buffer) ==
  IF Length(data) > 65535 THEN encodeList(data, buffer)
  ELSE IF Length(data) > 0 /\ data.k # "string" THEN Throw
  ELSE encodeNum(Length(data), 2, Append(buffer, 107))
         \o [i \in 1 .. Length(data) |-> CharCodeAt(data, i - 1)]

\* i++ after this.encodeData(data[i], buffer)
encodeTupleNext(data, i, buffer) ==
  IF buffer = Throw THEN Throw ELSE encodeTupleLoop(data, i + 1, buffer)

\* the loop of encodeTuple from index i on
encodeTupleLoop(data, i, buffer) ==
  IF i >= Length(data) THEN buffer
  ELSE encodeTupleNext(data, i, encodeData(Index(data, i), buffer))

encodeTuple(data, buffer) ==
  IF Length(data) > fourByteMaxNumber THEN maxNumberError
  ELSE IF Length(data) < 256
    THEN encodeTupleLoop(data, 0, encodeNum(Length(data), 1, Append(buffer, 104)))
  ELSE encodeTupleLoop(data, 0, encodeNum(Length(data), 4, Append(buffer, 105)))

\* i++ after this.encodeData(pair[1], buffer)
encodeMapFromArrayNext(data, i, buffer) ==
  IF buffer = Throw THEN Throw ELSE encodeMapFromArrayLoop(data, i + 1, buffer)

\* this.encodeData(pair[1], buffer) after this.encodeData(pair[0], buffer)
encodeMapFromArrayValue(data, i, pair, buffer) ==
  IF buffer = Throw THEN Throw
  ELSE encodeMapFromArrayNext(data, i, encodeData(Index(pair, 1), buffer))

\* pair[0] of null or undefined is a TypeError
encodeMapFromArrayPair(data, i, pair, buffer) ==
  IF pair.k \in {"null", "undefined"} THEN Throw
  ELSE encodeMapFromArrayValue(data, i, pair, encodeData(Index(pair, 0), buffer))

\* the loop of encodeMapFromArray from index i on
encodeMapFromArrayLoop(data, i, buffer) ==
  IF i >= Length(data) THEN buffer
  ELSE encodeMapFromArrayPair(data, i, Index(data, i), buffer)

encodeMapFromArray(data, buffer) ==
  IF Length(data) > fourByteMaxNumber THEN maxNumberError
  ELSE encodeMapFromArrayLoop(data, 0, encodeNum(Length(data), 4, buffer))

\* i++ after this.encodeData(data[key], buffer)
encodeMapFromObjectNext(data, i, buffer) ==
  IF buffer = Throw THEN Throw ELSE encodeMapFromObjectLoop(data, i + 1, buffer)

\* this.encodeData(data[key], buffer) after this.encodeBinary(key, buffer)
encodeMapFromObjectValue(data, i, key, buffer) ==
  IF buffer = Throw THEN Throw
  ELSE encodeMapFromObjectNext(data, i, encodeData(ObjGet(data.m, key), buffer))

\* the key of a plain mapping written as an Atom
encodeMapFromObjectKey_Atom(data, i, key, buffer) ==
  encodeMapFromObjectValue(data, i, key, encodeAtom(key, buffer))

encodeMapFromObjectKey(data, i, key, buffer) ==
  encodeMapFromObjectValue(data, i, key, encodeBinary(key, buffer))

\* the loop of encodeMapFromObject over keys = Object.keys(data) from i on
encodeMapFromObjectLoop(data, i, buffer) ==
  IF i >= Len(data.m) THEN buffer
  ELSE encodeMapFromObjectKey(data, i, data.m[i + 1][1], buffer)

encodeMapFromObject(data, buffer) ==
  IF Len(data.m) > fourByteMaxNumber THEN maxNumberError
  ELSE encodeMapFromObjectLoop(data, 0, encodeNum(Len(data.m), 4, buffer))

encodeMap(data, buffer) ==
  IF data.k = "array"
    THEN encodeMapFromArray(data, Append(buffer, 116))
    ELSE encodeMapFromObject(data, Append(buffer, 116))

\* this["encode" + obj.type](obj.value, buffer): a TypeError when Bert has
\* no such method
encodeType(obj, buffer) ==
  IF obj = Throw THEN Throw
  ELSE CASE obj.type = "NewFloat" -> encodeNewFloat(obj.value, buffer)
         [] obj.type = "SmallInt" -> encodeSmallInt(obj.value, buffer)
         [] obj.type = "Int" -> encodeInt(obj.value, buffer)
         [] obj.type = "Nil" -> encodeNil(obj.value, buffer)
         [] obj.type = "Atom" -> encodeAtom(obj.value, buffer)
         [] obj.type = "String" -> encodeString(obj.value, buffer)
         [] obj.type = "List" -> encodeList(obj.value, buffer)
         [] obj.type = "Tuple" -> encodeTuple(obj.value, buffer)
         [] obj.type = "Map" -> encodeMap(obj.value, buffer)
         [] obj.type = "Binary" -> encodeBinary(obj.value, buffer)
         [] OTHER -> Throw

encodeData(obj, buffer) ==
  encodeType(IF obj.k # "BertObj" THEN smartCast(obj) ELSE obj, buffer)

encode(obj) == encodeData(obj, <<131>>)

(***************************************************************************)
(* The values handed to Bert.encode and the data handed to Bert.decode.    *)
(***************************************************************************)
\* the integers tried lie within Spread of a boundary of the encoder or of a
\* byte of the 4-byte form
Spread == 2
\* the longest array, pair list or object literal tried
MaxArity == 2

okText == <<111, 107>>
errorText == <<101, 114, 114, 111, 114>>
swampText == <<115, 119, 97, 109, 112>>
thingText == <<116, 104, 105, 110, 103>>
fortyTwoText == <<52, 50>>

IntBoundaries == {0, 128, 256, 65536, 16777216, fourByteMaxNumber + 1}
IntSamples == {b + d : b \in IntBoundaries, d \in (0 - Spread) .. Spread}

\* 1.5 as a double
OneAndAHalf == Float64(<<0, 0, 0, 0, 0, 0, 248, 63>>)

SeqsUpTo(S, n) == UNION {[1 .. m -> S] : m \in 0 .. n}

\* the object literal with the given properties, in source order
RECURSIVE ObjLiteral(_)
ObjLiteral(props) ==
  IF props = <<>> THEN <<>>
  ELSE ObjSet(ObjLiteral(SubSeq(props, 1, Len(props) - 1)),
              props[Len(props)][1], props[Len(props)][2])

IntValues ==
  {BertInt(Num(n)) : n \in IntSamples} \cup {BertObj("SmallInt", Num(n)) : n \in IntSamples}

LeafValues ==
  { Nil, Float(OneAndAHalf), Atom(Str(okText)), Atom(Str(errorText)),
    Atom(Str(swampText)), String(Str(okText)), String(Str(<<>>)),
    Binary(Str(swampText)), Binary(Str(<<>>)),
    IntList(Arr(<<Num(104), Num(105)>>)), IntList(Arr(<<>>)),
    BertObj("SmallTuple", Arr(<<>>)), BertObj("SmallAtom", Str(okText)),
    Null, Num(42), OneAndAHalf, Str(thingText) }

\* the elements of the arrays tried, tagged and untagged, flat and nested
Elements ==
  { BertInt(Num(256)), Atom(Str(errorText)), Binary(Str(thingText)), Num(42),
    Str(okText), List(Arr(<<BertInt(Num(2))>>)), Tuple(Arr(<<Atom(Str(okText)), Nil>>)) }

Arrays == {Arr(a) : a \in SeqsUpTo(Elements, MaxArity)}

MapKeys == {Atom(Str(swampText)), Binary(Str(swampText)), Str(swampText), Num(42)}
MapValues == {Str(thingText), Atom(Str(okText)), Binary(Str(thingText))}
PairArrays ==
  {Arr(a) : a \in SeqsUpTo({Arr(<<key, v>>) : key \in MapKeys, v \in MapValues}, MaxArity)}

ObjectKeys == {Str(swampText), Str(fortyTwoText)}
Objects ==
  {Obj(ObjLiteral(props)) : props \in SeqsUpTo(ObjectKeys \X MapValues, MaxArity)}

Values ==
  IntValues \cup LeafValues
    \cup {Tuple(a) : a \in Arrays} \cup {List(a) : a \in Arrays} \cup Arrays
    \cup {Map(a) : a \in PairArrays} \cup {Map(o) : o \in Objects} \cup Objects

\* data that did not come from the encoder: a first byte, a tag byte, a payload
FirstBytes == {131, 130}
TagBytes == 0 .. 255
Payloads ==
  { <<>>, <<0>>, <<1, 106>>, <<0, 2, 49, 50>>, <<0, 0, 0, 1, 106, 106>>,
    <<2, 97, 53, 106, 106>>,
    <<100, 0, 2, 111, 107, 0, 0, 1, 44, 7, 106>>,
    <<100, 0, 2, 111, 107, 0, 0, 1, 44, 0, 0, 0, 9, 7, 106>> }
RawMessages == {<<f, t>> \o p : f \in FirstBytes, t \in TagBytes, p \in Payloads} \cup {<<>>}

\* what may stand where the terminator of a list is expected
Terminators ==
  { <<>>, <<106>>, <<106, 97, 1>>, <<97, 1>>, <<104, 0>>, <<107, 0, 0>>,
    <<108, 0, 0, 0, 0, 106>>, <<120>> }

NoValue == [k |-> "none"]

(***************************************************************************)
(* The WebSocket wrapper.  A handler is the one given when the connection  *)
(* was created, or the closure a send_bert call put in its place, which    *)
(* holds the call's callback and the handler it replaced.                  *)
(***************************************************************************)
GivenHandler == [k |-> "given"]
OverrideHandler(id, original) == [k |-> "override", id |-> id, original |-> original]

\* new Uint8Array(array): every element is stored modulo 256
Uint8Array(buffer) ==
  IF buffer = Throw THEN Throw ELSE [i \in 1 .. Len(buffer) |-> buffer[i] % 256]

\* BertWS.encode and BertWS.decode; the DataView is read from offset 0
BertWS_encode(message) == Uint8Array(encode(message))
BertWS_decode(bytes) == decode(ArrayData(bytes))

\* v == text for a string text: an array is compared by its join(",")
LooseEquals(v, text) ==
  CASE v.k = "string" -> Units(v) = text
    [] v.k = "array" -> Units(JSToString(v)) = text
    [] OTHER -> FALSE

\* the handler receive picks: message instanceof Array && message[0] == "error"
receive(message) ==
  IF message.k = "array" /\ LooseEquals(Index(message, 0), errorText)
    THEN "error"
    ELSE "success"

\* the connection after construction: both handlers are the given ones, no
\* send_bert call was made (sent), no response is awaited (pending), no
\* handler or callback has run, no message was dispatched (last)
WsInit ==
  [ handle_success |-> GivenHandler, handle_error |-> GivenHandler,
    sent |-> 0, pending |-> 0,
    success_runs |-> <<>>, error_runs |-> <<>>,
    given_success_runs |-> 0, given_error_runs |-> 0,
    last |-> NoValue ]

VARIABLES pc, obj, encoded, data, decoded, term, ws
vars == <<pc, obj, encoded, data, decoded, term, ws>>

Init ==
  /\ pc = "start"
  /\ obj = NoValue
  /\ encoded = NoValue
  /\ data = NoValue
  /\ decoded = NoValue
  /\ term = NoValue
  /\ ws = WsInit

\* buffer = Bert.encode(obj)
Encode ==
  /\ pc = "start"
  /\ \E v \in Values :
       /\ obj' = v
       /\ encoded' = encode(v)
  /\ pc' = "encoded"
  /\ UNCHANGED <<data, decoded, term, ws>>

\* the encoded bytes reach the decoder, as an array or as a string with one
\* character per byte
Deliver ==
  /\ pc = "encoded"
  /\ encoded # Throw
  /\ \E form \in {"array", "string"} : data' = [form |-> form, b |-> encoded]
  /\ pc' = "received"
  /\ UNCHANGED <<obj, encoded, decoded, term, ws>>

\* only the first n bytes reach the decoder
Truncate ==
  /\ pc = "encoded"
  /\ encoded # Throw
  /\ \E n \in 0 .. (Len(encoded) - 1) : data' = ArrayData(SubSeq(encoded, 1, n))
  /\ pc' = "received"
  /\ UNCHANGED <<obj, encoded, decoded, term, ws>>

\* a list message whose terminator is replaced by t
Terminate ==
  /\ pc = "encoded"
  /\ encoded # Throw
  /\ Len(encoded) >= 2
  /\ encoded[2] = 108
  /\ \E t \in Terminators :
       data' = ArrayData(SubSeq(encoded, 1, Len(encoded) - 1) \o t)
  /\ pc' = "received"
  /\ UNCHANGED <<obj, encoded, decoded, term, ws>>

\* data that did not come from the encoder
Receive ==
  /\ pc = "start"
  /\ \E b \in RawMessages, form \in {"array", "string"} :
       data' = [form |-> form, b |-> b]
  /\ pc' = "received"
  /\ UNCHANGED <<obj, encoded, decoded, term, ws>>

\* decoded = Bert.decode(data)
Decode ==
  /\ pc = "received"
  /\ pc' = "decoded"
  /\ decoded' = decode(data)
  /\ UNCHANGED <<obj, encoded, data, term, ws>>

\* term = Bert.decodeData(rest), rest being the data after its first byte
DecodeData ==
  /\ pc = "received"
  /\ pc' = "decodedData"
  /\ term' = decodeData(nextToken(data)[2])
  /\ UNCHANGED <<obj, encoded, data, decoded, ws>>

Next ==
  \/ Encode
  \/ Deliver
  \/ Truncate
  \/ Terminate
  \/ Receive
  \/ Decode
  \/ DecodeData

Spec == Init /\ [][Next]_vars

(***************************************************************************)
(* The host-level value a tagged value stands for: text for Atom, String   *)
(* and Binary, a number for the integers, an array for Tuple and List, a   *)
(* mapping for Map.                                                        *)
(***************************************************************************)
RECURSIVE HostValue(_), HostPairs(_, _)
HostValue(v) ==
  CASE v.k = "BertObj" /\ v.type \in {"Tuple", "List", "SmallTuple"} ->
         Arr([i \in 1 .. Len(v.value.a) |-> HostValue(v.value.a[i])])
    [] v.k = "BertObj" /\ v.type = "Map" /\ v.value.k = "array" ->
         Obj(HostPairs(v.value.a, Len(v.value.a)))
    [] v.k = "BertObj" /\ v.type = "Map" /\ v.value.k = "object" ->
         Obj([i \in 1 .. Len(v.value.m) |->
                <<v.value.m[i][1], HostValue(v.value.m[i][2])>>])
    [] v.k = "BertObj" /\ v.type = "Nil" -> Arr(<<>>)
    [] v.k = "BertObj" /\ v.type = "String" /\ v.value.k = "array" ->
         Str([i \in 1 .. Len(v.value.a) |-> v.value.a[i].n])
    [] v.k = "BertObj" -> v.value
    [] v.k \in {"null", "undefined"} -> Arr(<<>>)
    [] v.k = "array" -> Arr([i \in 1 .. Len(v.a) |-> HostValue(v.a[i])])
    [] v.k = "object" -> Obj([i \in 1 .. Len(v.m) |-> <<v.m[i][1], HostValue(v.m[i][2])>>])
    [] OTHER -> v

\* the mapping with the first n pairs, a later pair replacing an earlier one
\* with the same key text
HostPairs(pairs, n) ==
  IF n = 0 THEN <<>>
  ELSE ObjSet(HostPairs(pairs, n - 1),
              JSToString(HostValue(pairs[n].a[1])), HostValue(pairs[n].a[2]))

DecoderTypes == {BERT_TOKENS[t] : t \in DOMAIN BERT_TOKENS} \ {"start"}

\* a value tagged all the way down, of a type the decoder produces
RECURSIVE Tagged(_)
Tagged(v) ==
  /\ v.k = "BertObj"
  /\ v.type \in DecoderTypes
  /\ v.type \in {"Int", "SmallInt"} => v.value.n <= fourByteMaxNumber
  /\ v.type \in {"Tuple", "List", "SmallTuple"} =>
       \A i \in 1 .. Len(v.value.a) : Tagged(v.value.a[i])
  /\ (v.type = "Map" /\ v.value.k = "array") =>
       \A i \in 1 .. Len(v.value.a) :
         Tagged(v.value.a[i].a[1]) /\ Tagged(v.value.a[i].a[2])
  /\ (v.type = "Map" /\ v.value.k = "object") =>
       \A i \in 1 .. Len(v.value.m) : Tagged(v.value.m[i][2])

\* the decoder was given exactly the array the encoder returned
RoundTrip == pc = "decoded" /\ obj # NoValue /\ data = ArrayData(encoded)

\* C1: every tagged value of a type the decoder produces encodes without an
\* error, and decoding the encoded array returns its host-level value.
C1_RoundTripAllTagged ==
  (obj # NoValue /\ Tagged(obj)) =>
    /\ encoded # Throw
    /\ RoundTrip => decoded = HostValue(obj)

\* C2: for every integer v in 0 .. 2^27 - 1, decoding the encoding of
\* Bert.Int(v) returns v, in the 1-byte and in the 4-byte form.
C2_IntRoundTrip ==
  (/\ RoundTrip
   /\ obj.k = "BertObj"
   /\ obj.type = "Int"
   /\ obj.value.n \in 0 .. fourByteMaxNumber)
    => decoded = Num(obj.value.n)

C2_Witness ==
  /\ RoundTrip
  /\ obj = BertInt(Num(fourByteMaxNumber))
  /\ encoded = <<131, 98, 7, 255, 255, 255>>
  /\ decoded = Num(fourByteMaxNumber)

\* C3: decode throws whenever the first byte of the data is not 131, and
\* otherwise returns the value of the term that starts at the second byte.
C3_StartMarker ==
  pc = "decoded" =>
    IF Len(data.b) = 0 \/ data.b[1] # 131 THEN decoded = Throw
    ELSE LET second == [form |-> data.form, b |-> SubSeq(data.b, 2, Len(data.b))]
             r == decodeData(second)
         IN  /\ decoded = IF r = Throw THEN Throw ELSE r[1].value
             /\ (data.form = "array" /\ Len(data.b) = 3 /\ data.b[2] = 97)
                  => decoded = Num(data.b[3])

C3_Witness ==
  /\ pc = "decoded"
  /\ data = ArrayData(<<130, 106>>)
  /\ decoded = Throw

(***************************************************************************)
(* Lists.                                                                  *)
(***************************************************************************)
\* the data is the array encoding of the list obj up to, and without, its
\* last byte, followed by whatever the decoder was handed in its place
ListThenTail ==
  /\ pc = "decodedData"
  /\ obj # NoValue
  /\ obj.k = "BertObj"
  /\ obj.type = "List"
  /\ encoded # Throw
  /\ data.form = "array"
  /\ Len(data.b) >= Len(encoded) - 1
  /\ SubSeq(data.b, 1, Len(encoded) - 1) = SubSeq(encoded, 1, Len(encoded) - 1)

\* what follows the last element of the list
ListTail == SubSeq(data.b, Len(encoded), Len(data.b))

\* C4: decoding a List term throws unless the term right after its last
\* element is of type Nil (tag 106); when it is, the result is the decoded
\* elements in wire order and the remainder starts after the Nil byte.
C4_ListNilTerminated ==
  ListThenTail =>
    term = IF ListTail # <<>> /\ ListTail[1] = 106
             THEN << BertObj("List",
                             Arr([i \in 1 .. Len(obj.value.a) |->
                                    HostValue(obj.value.a[i])])),
                     ArrayData(Tail(ListTail)) >>
             ELSE Throw

C4_Witness ==
  /\ ListThenTail
  /\ obj = List(Arr(<<BertInt(Num(256)), Atom(Str(errorText))>>))
  /\ ListTail = <<106, 97, 1>>
  /\ term = << BertObj("List", Arr(<<Num(256), Str(errorText)>>)), ArrayData(<<97, 1>>) >>

\* the 4-byte big-endian form of a length
FourBytes(n) ==
  << n \div 16777216, (n \div 65536) % 256, (n \div 256) % 256, n % 256 >>

\* C5: an untagged empty array encodes as Nil, [131, 106], and an untagged
\* non-empty array as a List: tag 108, the 4-byte length, the elements, 106.
C5_ArrayInference ==
  (pc # "start" /\ obj # NoValue /\ obj.k = "array") =>
    IF Len(obj.a) = 0 THEN encoded = <<131, 106>>
    ELSE /\ encoded # Throw
         /\ SubSeq(encoded, 1, 6) = <<131, 108>> \o FourBytes(Len(obj.a))
         /\ encoded[Len(encoded)] = 106

(***************************************************************************)
(* Integers.                                                               *)
(***************************************************************************)
\* C6: an Int or SmallInt value v below 256 is written as tag 97 and one
\* payload element, v itself; v in 256 .. 2^27 - 1 as tag 98 and four
\* big-endian bytes; v above 2^27 - 1 throws and nothing is returned.
C6_IntCompaction ==
  (pc # "start" /\ obj # NoValue /\ obj.k = "BertObj" /\ obj.type \in {"Int", "SmallInt"}) =>
    IF obj.value.n > 134217727 THEN encoded = Throw
    ELSE IF obj.value.n < 256 THEN encoded = <<131, 97, obj.value.n>>
    ELSE encoded = <<131, 98>> \o FourBytes(obj.value.n)

C6_Witness ==
  /\ pc = "encoded"
  /\ obj = BertObj("SmallInt", Num(256))
  /\ encoded = <<131, 98, 0, 0, 1, 0>>

(***************************************************************************)
(* Maps.                                                                   *)
(***************************************************************************)
\* obj is a Map built from an array of pairs, one of them with an Atom key
AtomKeyMap ==
  /\ obj # NoValue
  /\ obj.k = "BertObj"
  /\ obj.type = "Map"
  /\ obj.value.k = "array"
  /\ \E i \in 1 .. Len(obj.value.a) :
       obj.value.a[i].a[1].k = "BertObj" /\ obj.value.a[i].a[1].type = "Atom"

\* the pairs with every Atom key replaced by a Binary key of the same text
BinaryKeys(pairs) ==
  [i \in 1 .. Len(pairs) |->
     IF pairs[i].a[1].k = "BertObj" /\ pairs[i].a[1].type = "Atom"
       THEN Arr(<<Binary(pairs[i].a[1].value), pairs[i].a[2]>>)
       ELSE pairs[i]]

\* C7 as stated: a Map of pairs with an Atom key decodes to a mapping that
\* differs from the one decoded for the same pairs with a Binary key.
C7_AtomKeyKept ==
  (RoundTrip /\ AtomKeyMap) =>
    decoded # decode(ArrayData(encode(Map(Arr(BinaryKeys(obj.value.a))))))

\* obj is a plain mapping, tagged as a Map or not, with at least one key
ObjectMap ==
  /\ obj # NoValue
  /\ \/ obj.k = "object" /\ Len(obj.m) > 0
     \/ obj.k = "BertObj" /\ obj.type = "Map" /\ obj.value.k = "object"
          /\ Len(obj.value.m) > 0

\* C7 amended: a Map of pairs writes an Atom key with the Atom tag 100 but
\* decodes to a mapping keyed by the keys' text, the same mapping as for
\* Binary keys of that text; a plain mapping writes every key as a Binary
\* (tag 109) and decodes with text keys.
C7_MapKeysAsText ==
  /\ (pc # "start" /\ AtomKeyMap) =>
       /\ encoded # Throw
       /\ SubSeq(encoded, 1, 2) = <<131, 116>>
       /\ (obj.value.a[1].a[1].k = "BertObj" /\ obj.value.a[1].a[1].type = "Atom")
            => encoded[7] = 100
       /\ RoundTrip =>
            /\ decoded = HostValue(obj)
            /\ decoded = decode(ArrayData(encode(Map(Arr(BinaryKeys(obj.value.a))))))
  /\ (pc # "start" /\ ObjectMap) =>
       /\ encoded # Throw
       /\ SubSeq(encoded, 1, 2) = <<131, 116>>
       /\ encoded[7] = 109
       /\ RoundTrip => decoded = HostValue(obj)

C7_Witness ==
  /\ RoundTrip
  /\ obj = Map(Arr(<<Arr(<<Atom(Str(swampText)), Binary(Str(thingText))>>)>>))
  /\ encoded[7] = 100
  /\ decoded = Obj(<< <<Str(swampText), Str(thingText)>> >>)

(***************************************************************************)
(* The two forms of the data.                                              *)
(***************************************************************************)
\* C8: a string with one character per byte decodes to the same value as
\* the array with one element per byte.
C8_StringAndArrayAgree ==
  (pc = "decoded" /\ data.form = "string") => decoded = decode(ArrayData(data.b))

(***************************************************************************)
(* Unknown tags and truncated data.                                        *)
(***************************************************************************)
\* the keys of the tag table, as the source lists them
RegistryKeys ==
  {131, 70, 77, 97, 98, 99, 100, 102, 103, 104, 105, 106, 107, 108, 109, 110,
   111, 115, 116, 118, 119}

\* C9: decodeData throws, and yields no value, whenever the tag byte it
\* reads is not a key of the tag table, or there is no byte to read.
C9_UnknownTagThrows ==
  (pc = "decodedData" /\ (Len(data.b) < 2 \/ data.b[2] \notin RegistryKeys)) =>
    term = Throw

C9_Witness ==
  /\ pc = "decodedData"
  /\ data = ArrayData(<<131, 120, 1, 106>>)
  /\ term = Throw

\* the tags of the fixed-width integers and of the length-prefixed terms
\* the encoder writes
PrefixedTags == {97, 98, 100, 104, 107, 108, 109, 116}

\* C10: decode throws when the data is a proper prefix of the encoding of an
\* integer or of a length-prefixed term, i.e. when it ends before the term
\* is complete.
C10_TruncatedThrows ==
  (/\ pc = "decoded"
   /\ obj # NoValue
   /\ encoded # Throw
   /\ encoded[2] \in PrefixedTags
   /\ data.form = "array"
   /\ Len(data.b) < Len(encoded)
   /\ data.b = SubSeq(encoded, 1, Len(data.b)))
    => decoded = Throw

(***************************************************************************)
(* Ports and pids.                                                         *)
(***************************************************************************)
\* the data after the start byte is a Port (tag 102) or a Pid (tag 103) whose
\* inner term is an Atom (tag 100) with a one-byte-sized text, complete up to
\* the creation byte
PortOrPidData ==
  /\ pc = "decodedData"
  /\ data.form = "array"
  /\ Len(data.b) >= 5
  /\ data.b[2] \in {102, 103}
  /\ data.b[3] = 100
  /\ data.b[4] = 0
  /\ Len(data.b) >= 5 + data.b[5] + (IF data.b[2] = 102 THEN 5 ELSE 9)

\* the text of the inner atom, the id, and the count of bytes from the tag
\* to the creation byte
PortAtomText == SubSeq(data.b, 6, 5 + data.b[5])
PortId ==
  data.b[6 + data.b[5]] * 16777216 + data.b[7 + data.b[5]] * 65536
    + data.b[8 + data.b[5]] * 256 + data.b[9 + data.b[5]]
PortEnd == 5 + data.b[5] + (IF data.b[2] = 102 THEN 5 ELSE 9)

\* C11: a Port or Pid term decodes to the inner atom's text followed by "<",
\* the decimal id and ">", and the remainder starts after the creation byte.
C11_PortPidString ==
  PortOrPidData =>
    term = << BertObj(IF data.b[2] = 102 THEN "Port" ELSE "Pid",
                      Str(PortAtomText \o <<60>> \o NatDigits(PortId) \o <<62>>)),
              ArrayData(SubSeq(data.b, PortEnd + 1, Len(data.b))) >>

(***************************************************************************)
(* Strings, short and long.                                                *)
(***************************************************************************)
\* the longest short text tried
MaxStringLen == 3

\* the characters of the short texts tried: NUL, letters, and the code units
\* at the edge of a byte
StringChars == {0, 97, 107, 255, 256}

\* texts of 65536 and 65537 characters: "ok" and the empty text, padded
\* with NUL characters
LongStrings == {MkStr(<<111, 107>>, 65536), MkStr(<<>>, 65537)}

StringValues ==
  {String(Str(s)) : s \in SeqsUpTo(StringChars, MaxStringLen)}
    \cup {String(v) : v \in LongStrings}

\* an array longer than HeadLen is recorded by its length, its first HeadLen
\* elements and its last element
HeadLen == 24

Abridged(buffer) ==
  IF buffer = Throw THEN Throw
  ELSE IF Len(buffer) <= HeadLen THEN buffer
  ELSE [k |-> "long", length |-> Len(buffer), head |-> SubSeq(buffer, 1, HeadLen),
        last |-> buffer[Len(buffer)]]

\* buffer = Bert.encode(Bert.String(text))
EncodeString ==
  /\ pc = "start"
  /\ \E v \in StringValues :
       /\ obj' = v
       /\ encoded' = Abridged(encode(v))
  /\ pc' = "encoded"
  /\ UNCHANGED <<data, decoded, term, ws>>

StringSpec == Init /\ [][EncodeString]_vars

\* a String value was encoded
StringEncoded ==
  /\ pc = "encoded"
  /\ obj.k = "BertObj"
  /\ obj.type = "String"
  /\ obj.value.k = "string"

\* the terms of a List of the code points of text, each below 256 and so
\* written as tag 97 and the code point
CodePointTerms(text) ==
  [j \in 1 .. 2 * StrLength(text) |->
     IF j % 2 = 1 THEN 97 ELSE CharCodeAt(text, (j \div 2) - 1)]

\* C12: a String of at most 65535 characters is written as tag 107, the
\* 2-byte big-endian length and one element per character; a longer one as
\* a List (tag 108, 4-byte length) of the integer code points of its
\* characters, then Nil.
C12_StringLayout ==
  StringEncoded =>
    IF StrLength(obj.value) <= 65535
      THEN encoded =
             Abridged(<<131, 107, StrLength(obj.value) \div 256, StrLength(obj.value) % 256>>
                        \o Units(obj.value))
      ELSE encoded =
             Abridged(<<131, 108>> \o FourBytes(StrLength(obj.value))
                        \o CodePointTerms(obj.value) \o <<106>>)

\* the first half of C12 alone: the layout of a String of at most 65535
\* characters
C12_ShortStringLayout ==
  (StringEncoded /\ StrLength(obj.value) <= 65535) =>
    encoded =
      Abridged(<<131, 107, StrLength(obj.value) \div 256, StrLength(obj.value) % 256>>
                 \o Units(obj.value))

(***************************************************************************)
(* The WebSocket wrapper: send_bert calls and the messages answering them. *)
(***************************************************************************)
\* the most send_bert calls made on a connection
MaxSends == 3

\* what is sent; the last one cannot be encoded
SendValues == {Atom(Str(okText)), BertInt(Num(300)), IntList(Arr(<<Num(104), Num(105)>>))}

\* what the server answers: {error, ok}, {ok, ok}, {error, ok, ok}, {error},
\* a list of the binary "error", a list of such a list, the atom error, an
\* empty list, and bytes that are no term
WsMessageValues ==
  { Tuple(Arr(<<Atom(Str(errorText)), Atom(Str(okText))>>)),
    Tuple(Arr(<<Atom(Str(okText)), Atom(Str(okText))>>)),
    Tuple(Arr(<<Atom(Str(errorText)), Atom(Str(okText)), Atom(Str(okText))>>)),
    Tuple(Arr(<<Atom(Str(errorText))>>)),
    List(Arr(<<Binary(Str(errorText))>>)),
    List(Arr(<<List(Arr(<<Binary(Str(errorText))>>)), Atom(Str(okText))>>)),
    Atom(Str(errorText)),
    List(Arr(<<>>)) }
WsMessages == {encode(v) : v \in WsMessageValues} \cup {<<130, 106>>}

\* ws.handle_success(message) or ws.handle_error(message): the given handler
\* runs, or the closure of send_bert puts back the handler it replaced and
\* runs its callback
RunSuccess(w) ==
  IF w.handle_success.k = "given"
    THEN [w EXCEPT !.given_success_runs = @ + 1]
    ELSE [w EXCEPT !.handle_success = w.handle_success.original,
                   !.success_runs[w.handle_success.id] = @ + 1]

RunError(w) ==
  IF w.handle_error.k = "given"
    THEN [w EXCEPT !.given_error_runs = @ + 1]
    ELSE [w EXCEPT !.handle_error = w.handle_error.original,
                   !.error_runs[w.handle_error.id] = @ + 1]

\* the handlers invoked for the last message
Invoked(handlers) == [k |-> "invoked", handlers |-> handlers]

\* the connection after ws.onmessage got message from Bert.decode: nothing
\* runs when decode threw
Dispatch(w, message) ==
  IF message = Throw THEN [w EXCEPT !.last = Invoked(<<>>)]
  ELSE IF receive(message) = "error" THEN RunError([w EXCEPT !.last = Invoked(<<"error">>)])
  ELSE RunSuccess([w EXCEPT !.last = Invoked(<<"success">>)])

\* the handlers after the overrides of a send_bert call with the given
\* callbacks (TRUE: a callback is passed, FALSE: it is null)
Override(w, success, error) ==
  [w EXCEPT !.handle_success = IF success THEN OverrideHandler(w.sent + 1, @) ELSE @,
            !.handle_error = IF error THEN OverrideHandler(w.sent + 1, @) ELSE @,
            !.success_runs = Append(@, 0),
            !.error_runs = Append(@, 0),
            !.sent = @ + 1,
            !.pending = @ + 1]

\* ws.send_bert(bertObj, success, error): nothing is changed or sent when
\* Bert.encode throws
send_bert ==
  /\ ws.sent < MaxSends
  /\ \E bertObj \in SendValues, success \in BOOLEAN, error \in BOOLEAN :
       /\ obj' = bertObj
       /\ encoded' = BertWS_encode(bertObj)
       /\ ws' = IF encode(bertObj) = Throw THEN ws ELSE Override(ws, success, error)
  /\ UNCHANGED <<pc, data, decoded, term>>

\* ws.onmessage(e) for the response to a call
onmessage ==
  /\ ws.pending > 0
  /\ \E bytes \in WsMessages :
       /\ data' = ArrayData(bytes)
       /\ decoded' = BertWS_decode(bytes)
       /\ ws' = Dispatch([ws EXCEPT !.pending = @ - 1], BertWS_decode(bytes))
  /\ UNCHANGED <<pc, obj, encoded, term>>

WsNext == send_bert \/ onmessage

WsSpec == Init /\ [][WsNext]_vars

\* the error tuple: a two-element sequence whose first element is the text
\* error (a decoded atom is its text)
ErrorTuple(message) ==
  /\ message.k = "array"
  /\ Len(message.a) = 2
  /\ message.a[1] = Str(errorText)

\* C13: for a received message that decodes, exactly one handler is invoked:
\* the error handler when the message is the error tuple, the success
\* handler for every other message.
C13_OneHandlerPerMessage ==
  (ws.last # NoValue /\ decoded # Throw) =>
    ws.last.handlers = IF ErrorTuple(decoded) THEN <<"error">> ELSE <<"success">>

RECURSIVE Sum(_)
Sum(runs) == IF runs = <<>> THEN 0 ELSE runs[1] + Sum(Tail(runs))

\* every call was answered by a message that was dispatched to a handler
AllAnswered ==
  /\ ws.sent > 0
  /\ ws.pending = 0
  /\ ws.given_success_runs + ws.given_error_runs + Sum(ws.success_runs) + Sum(ws.error_runs)
       = ws.sent

\* C14: once every send_bert call has got its response, handle_success and
\* handle_error are the handlers given at creation again, and no callback
\* has run more than once.
C14_OverrideTemporary ==
  AllAnswered =>
    /\ ws.handle_success = GivenHandler
    /\ ws.handle_error = GivenHandler
    /\ \A i \in 1 .. ws.sent : ws.success_runs[i] <= 1 /\ ws.error_runs[i] <= 1

\* the part of C14 about the callbacks alone: none runs more than once
C14_CallbackAtMostOnce ==
  \A i \in 1 .. ws.sent : ws.success_runs[i] <= 1 /\ ws.error_runs[i] <= 1

(***************************************************************************)
(* The elements of the encoded array.                                      *)
(***************************************************************************)
\* C15: for every value that encodes without an error, the first element of
\* the array is 131 and every element is an integer in 0 .. 255, so that
\* new Uint8Array(array) has the same elements.
C15_EncodedBytes ==
  (pc = "encoded" /\ encoded # Throw) =>
    /\ encoded[1] = 131
    /\ \A i \in 1 .. Len(encoded) : encoded[i] \in 0 .. 255
    /\ Uint8Array(encoded) = encoded

====
